---------------------------- MODULE Spec2Model ----------------------------
(***************************************************************************)
(* A model of the MovieLens ingestion of backend/app/crud.py,              *)
(* backend/app/models.py and backend/seed_movielens.py.                    *)
(*                                                                         *)
(* The catalog is the variable db: four tables, each a sequence of rows    *)
(* whose index is the row's autoincrement primary key (no code path        *)
(* deletes a row).  Sessions (writers) call the functions of crud.py; a    *)
(* call is two steps, the SELECT of its lookup and the flush/COMMIT of     *)
(* what it then adds or changes, so that another session can commit in     *)
(* between.  seed_movies is a sequential process over the rows of          *)
(* movies.csv that calls the same functions.                               *)
(*                                                                         *)
(* Optional values: None is <<>>, a present value x is <<x>>.  A foreign   *)
(* key or entity reference is a row id, 0 for NULL / None.                 *)
(***************************************************************************)
EXTENDS Integers, Sequences, FiniteSets, TLC

VARIABLES
    db,         \* the catalog: [genres, directors, actors, movies]
    writers,    \* the sessions that issue crud calls
    pc,         \* per session: "idle" | "queried" | "failed"
    call,       \* per session: the crud call in progress
    returned,   \* the <<kind, name, id>> get_or_create_* calls have returned
    ncalls,     \* crud calls issued so far
    movies_file,    \* movies.csv: None when it cannot be opened, else its rows
    ratings_file,   \* ratings.csv: None when it cannot be opened, else its rows
    api_key,        \* whether TMDB_API_KEY is set
    spc,        \* where main() / seed_movies is
    err,        \* the exception that ended the run, "none" otherwise
    movie_ratings,  \* what calculate_ratings returned
    pos,        \* rows of movies.csv the reader has handed out
    processed,  \* seed_movies' counter of upserted rows
    cur,        \* the locals of the row being processed
    run,        \* runs of main() started so far
    snap,       \* the entity counts when the previous run ended (None: no such run)
    answers,    \* per row of movies.csv, what TMDb answered last (None: not asked)
    stable,     \* TMDb has answered every row it was asked about again as before
    stops,      \* per run that was stopped between two rows, the rows it had read
    net,        \* what the enricher of this run did: "search", "credits", "sleep"
    summary,    \* what the run logged when it completed (None: nothing yet)
    synth,      \* the <<id, director name, actor names>> the synthesizer returned
    title_arg,  \* a title extract_year_from_title is called with (None: no call)
    title_ret,  \* what that call returned (None: not yet)
    fn,         \* a function that is called on its own ("none": no such call)
    fn_arg,     \* what it is called with (None: no call)
    fn_ret      \* what it returned (None: not yet)

\* ------------------------------------------------------------------ bounds

\* Calls the sessions of Spec and of SpecTwo issue.
MaxCalls == 3
MaxCallsTwo == 2

\* ------------------------------------------------------------ basic values

None == <<>>
Some(x) == <<x>>

Range(s) == {s[i] : i \in 1..Len(s)}

NoDuplicates(s) == \A i, j \in 1..Len(s) : s[i] = s[j] => i = j

\* ------------------------------------------------------------- the catalog

EmptyDb == [genres |-> <<>>, directors |-> <<>>, actors |-> <<>>, movies |-> <<>>]

\* Outcome of a crud function: the catalog after it, the id of the entity it
\* returns (0 when it raised) and the exception it raised ("none" when it
\* returned).
Result(d, id, error) == [db |-> d, id |-> id, error |-> error]

\* query(...).filter(name == name): the ids of the rows that match.
GenresNamed(d, name) == {i \in 1..Len(d.genres) : d.genres[i].name = name}
DirectorsNamed(d, name) == {i \in 1..Len(d.directors) : d.directors[i].name = name}
ActorsNamed(d, name) == {i \in 1..Len(d.actors) : d.actors[i].name = name}
MoviesWithMlId(d, ml_id) == {i \in 1..Len(d.movies) : d.movies[i].ml_id = ml_id}

\* .first(): one of the matching rows (the query has no ORDER BY), None (0)
\* when there is none.
First(matches) == IF matches = {} THEN {0} ELSE matches

\* A faulty get_or_create_genre that adds the Genre without regard to what
\* its lookup found.
genre_added_without_lookup(d, name, found) ==
    IF GenresNamed(d, name) # {} THEN Result(d, 0, "IntegrityError")
    ELSE Result([d EXCEPT !.genres = Append(@, [name |-> name])],
                Len(d.genres) + 1, "none")

\* crud.py 10-15: the rest of get_or_create_genre after its lookup found
\* `found`.  Genre.name is unique: the INSERT of a name another row holds
\* raises IntegrityError and the transaction rolls back.
get_or_create_genre_commit(d, name, found) ==
    IF found # 0 THEN Result(d, found, "none")
    ELSE IF GenresNamed(d, name) # {} THEN Result(d, 0, "IntegrityError")
    ELSE Result([d EXCEPT !.genres = Append(@, [name |-> name])],
                Len(d.genres) + 1, "none")

\* A faulty get_or_create_director that adds the Director without regard to
\* what its lookup found.
director_added_without_lookup(d, name, bio, found) ==
    Result([d EXCEPT !.directors = Append(@, [name |-> name, bio |-> bio])],
           Len(d.directors) + 1, "none")

\* A faulty get_or_create_director that gives the Director it found the bio
\* of the call.
director_bio_overwritten(d, name, bio, found) ==
    IF found # 0 THEN Result([d EXCEPT !.directors[found].bio = bio], found, "none")
    ELSE Result([d EXCEPT !.directors = Append(@, [name |-> name, bio |-> bio])],
                Len(d.directors) + 1, "none")

\* crud.py 21-26.  Director.name is indexed, not unique: the INSERT always
\* succeeds.
get_or_create_director_commit(d, name, bio, found) ==
    IF found # 0 THEN Result(d, found, "none")
    ELSE Result([d EXCEPT !.directors = Append(@, [name |-> name, bio |-> bio])],
                Len(d.directors) + 1, "none")

\* A faulty get_or_create_actor that adds the Actor without regard to what
\* its lookup found.
actor_added_without_lookup(d, name, bio, found) ==
    Result([d EXCEPT !.actors = Append(@, [name |-> name, bio |-> bio])],
           Len(d.actors) + 1, "none")

\* crud.py 32-37.  Actor.name is indexed, not unique.
get_or_create_actor_commit(d, name, bio, found) ==
    IF found # 0 THEN Result(d, found, "none")
    ELSE Result([d EXCEPT !.actors = Append(@, [name |-> name, bio |-> bio])],
                Len(d.actors) + 1, "none")

\* The scalar columns create_or_update_movie_by_ml_id assigns.
ScalarFields == {"title", "release_year", "description", "rating",
                 "rating_count", "poster_url", "tmdb_id"}

\* The rows a relationship argument (None or a list of entity ids) asks for.
Supplied(arg) == IF arg = None THEN {} ELSE Range(arg[1])

\* A faulty INSERT of a Movie into a table whose ml_id column is not unique.
movie_inserted_without_unique_ml_id(d, a) ==
    Result([d EXCEPT !.movies = Append(@,
                [ml_id |-> a.ml_id,
                 title |-> a.title,
                 release_year |-> a.release_year,
                 description |-> a.description,
                 rating |-> a.rating,
                 rating_count |-> a.rating_count,
                 poster_url |-> a.poster_url,
                 tmdb_id |-> a.tmdb_id,
                 director_id |-> a.director,
                 actors |-> Supplied(a.actors),
                 genres |-> Supplied(a.genres)])],
           Len(d.movies) + 1, "none")

\* crud.py 69-81, 84-90: the INSERT of a new Movie and of its association
\* rows.  Movie.ml_id is unique; (movie_id, actor_id) and (movie_id,
\* genre_id) are primary keys, so a list naming an entity twice inserts the
\* same association row twice.
InsertMovie(d, a) ==
    IF MoviesWithMlId(d, a.ml_id) # {} THEN Result(d, 0, "IntegrityError")
    ELSE IF \/ a.actors # None /\ ~NoDuplicates(a.actors[1])
            \/ a.genres # None /\ ~NoDuplicates(a.genres[1])
         THEN Result(d, 0, "IntegrityError")
    ELSE Result([d EXCEPT !.movies = Append(@,
                    [ml_id |-> a.ml_id,
                     title |-> a.title,
                     release_year |-> a.release_year,
                     description |-> a.description,
                     rating |-> a.rating,
                     rating_count |-> a.rating_count,
                     poster_url |-> a.poster_url,
                     tmdb_id |-> a.tmdb_id,
                     director_id |-> a.director,
                     actors |-> Supplied(a.actors),
                     genres |-> Supplied(a.genres)])],
                Len(d.movies) + 1, "none")

\* A faulty flush that writes no column.
column_not_written(current, loaded, assigned) == current

\* The value the flush leaves in one column of an existing row: the unit of
\* work writes a column only when the assigned value differs from the value
\* the session loaded.
Flushed(current, loaded, assigned) == IF assigned # loaded THEN assigned ELSE current

\* A faulty flush that takes an omitted collection for an empty one.
rows_cleared_when_omitted(current, loaded, arg) ==
    (current \ (loaded \ Supplied(arg))) \cup (Supplied(arg) \ loaded)

\* A faulty flush that adds the supplied rows and deletes none.
rows_added_to_previous(current, loaded, arg) ==
    IF arg = None THEN current ELSE current \cup Supplied(arg)

\* The association rows the flush leaves: it deletes the loaded rows that are
\* no longer in the collection and inserts the ones that are new in it.
FlushedRows(current, loaded, arg) ==
    IF arg = None THEN current
    ELSE (current \ (loaded \ Supplied(arg))) \cup (Supplied(arg) \ loaded)

\* The flush inserts an association row that is already there (a list that
\* names an entity twice, or a row another session committed since the
\* collection was loaded).
RowConflict(current, loaded, arg) ==
    /\ arg # None
    /\ \/ (Supplied(arg) \ loaded) \cap current # {}
       \/ \E i, j \in 1..Len(arg[1]) :
            i # j /\ arg[1][i] = arg[1][j] /\ arg[1][i] \notin loaded

\* The flush deletes an association row that is no longer there (another
\* session removed it since the collection was loaded).
StaleDelete(current, loaded, arg) ==
    arg # None /\ ~((loaded \ Supplied(arg)) \subseteq current)

\* crud.py 57-67, 84-90: the UPDATE of the Movie `found`, whose row the
\* session loaded as `loaded`.  `sane` says whether the driver reports the
\* number of rows a DELETE matched; with it a stale delete raises
\* StaleDataError, without it the delete matches nothing and passes.
UpdateMovie(d, a, found, loaded, sane) ==
    LET old == d.movies[found]
        new == [ml_id |-> old.ml_id,
                title |-> Flushed(old.title, loaded.title, a.title),
                release_year |-> Flushed(old.release_year, loaded.release_year, a.release_year),
                description |-> Flushed(old.description, loaded.description, a.description),
                rating |-> Flushed(old.rating, loaded.rating, a.rating),
                rating_count |-> Flushed(old.rating_count, loaded.rating_count, a.rating_count),
                poster_url |-> Flushed(old.poster_url, loaded.poster_url, a.poster_url),
                tmdb_id |-> Flushed(old.tmdb_id, loaded.tmdb_id, a.tmdb_id),
                director_id |-> IF a.director # 0
                                THEN Flushed(old.director_id, loaded.director_id, a.director)
                                ELSE old.director_id,
                actors |-> FlushedRows(old.actors, loaded.actors, a.actors),
                genres |-> FlushedRows(old.genres, loaded.genres, a.genres)]
    IN  IF \/ RowConflict(old.actors, loaded.actors, a.actors)
           \/ RowConflict(old.genres, loaded.genres, a.genres)
        THEN Result(d, 0, "IntegrityError")
        ELSE IF sane /\ (StaleDelete(old.actors, loaded.actors, a.actors)
                         \/ StaleDelete(old.genres, loaded.genres, a.genres))
        THEN Result(d, 0, "StaleDataError")
        ELSE Result([d EXCEPT !.movies[found] = new], found, "none")

\* A faulty create_or_update_movie_by_ml_id that takes the branch of a new
\* Movie whatever its lookup found.
movie_inserted_without_lookup(d, a, found, loaded, sane) == InsertMovie(d, a)

\* crud.py 57-91: the rest of create_or_update_movie_by_ml_id after its
\* lookup found `found`.
create_or_update_movie_commit(d, a, found, loaded, sane) ==
    IF found # 0 THEN UpdateMovie(d, a, found, loaded, sane)
    ELSE InsertMovie(d, a)

\* A str the code looks into is a sequence of one-character strings.
UpperCase == <<"A", "B", "C", "D", "E", "F", "G", "H", "I", "J", "K", "L", "M",
               "N", "O", "P", "Q", "R", "S", "T", "U", "V", "W", "X", "Y", "Z">>
LowerCase == <<"a", "b", "c", "d", "e", "f", "g", "h", "i", "j", "k", "l", "m",
               "n", "o", "p", "q", "r", "s", "t", "u", "v", "w", "x", "y", "z">>

Lower(c) ==
    IF \E i \in 1..Len(UpperCase) : UpperCase[i] = c
    THEN LowerCase[CHOOSE i \in 1..Len(UpperCase) : UpperCase[i] = c]
    ELSE c

\* s ILIKE pattern: % stands for any characters, _ for any one character,
\* letters match whatever their case.
RECURSIVE Like(_, _)
Like(pattern, s) ==
    IF pattern = <<>> THEN s = <<>>
    ELSE IF Head(pattern) = "%"
         THEN Like(Tail(pattern), s) \/ (s # <<>> /\ Like(pattern, Tail(s)))
    ELSE /\ s # <<>>
         /\ (Head(pattern) = "_" \/ Lower(Head(pattern)) = Lower(Head(s)))
         /\ Like(Tail(pattern), Tail(s))

\* column.ilike(f"%{text}%")
ILikeContains(s, text) == Like(<<"%">> \o text \o <<"%">>, s)

\* `if genre:` and the like: the str argument is given and is not "".
Applied(arg) == arg # None /\ arg[1] # <<>>

\* `if release_year:` the int argument is given and is not 0.
AppliedYear(arg) == arg # None /\ arg[1] # 0

\* crud.py 105-127: the rows of the query, a Movie joined with each of its
\* genres, actors and its director as far as the filters ask for a join (0:
\* not joined), and filtered.
JoinedRows(d, q) ==
    UNION {
        LET m == d.movies[i]
            genres == IF Applied(q.genre)
                      THEN {g \in m.genres : ILikeContains(d.genres[g].name, q.genre[1])}
                      ELSE {0}
            actors == IF Applied(q.actor)
                      THEN {a \in m.actors : ILikeContains(d.actors[a].name, q.actor[1])}
                      ELSE {0}
            directors == IF Applied(q.director)
                         THEN {r \in {m.director_id} \ {0} :
                                 ILikeContains(d.directors[r].name, q.director[1])}
                         ELSE {0}
        IN  IF /\ AppliedYear(q.release_year) => m.release_year = q.release_year
               /\ Applied(q.search) => ILikeContains(m.title, q.search[1])
            THEN {[movie |-> i, genre |-> g, actor |-> a, director |-> r] :
                    g \in genres, a \in actors, r \in directors}
            ELSE {} :
        i \in 1..Len(d.movies)}

\* A faulty query without distinct(): one result row for every joined row.
joined_rows_not_distinct(rows) == rows

\* crud.py 130: SELECT DISTINCT over the columns of Movie.
Distinct(rows) ==
    {[movie |-> r.movie, genre |-> 0, actor |-> 0, director |-> 0] : r \in rows}

\* The orders the database may return a set of rows in (no ORDER BY).
Orderings(rows) ==
    {o \in [1..Cardinality(rows) -> rows] :
        \A i, j \in 1..Cardinality(rows) : o[i] = o[j] => i = j}

\* .offset(skip).limit(limit)
Page(o, skip, limit) ==
    SubSeq(o, skip + 1, IF Len(o) < skip + limit THEN Len(o) ELSE skip + limit)

\* crud.py 94-132: the lists of Movie ids get_movies_filtered may return.
get_movies_filtered(d, q) ==
    {Page([i \in 1..Len(o) |-> o[i].movie], q.skip, q.limit) :
        o \in Orderings(Distinct(JoinedRows(d, q)))}


\* ------------------------------------------------- sessions calling crud.py

Sessions == {1, 2}

\* The names and values the sessions call the functions with.
GenreNames == {"Action", "Crime"}
DirectorNames == {"Michael Mann", "Director_059"}
ActorNames == {"Al Pacino", "Actor_023"}
Bios == {None, Some("Placeholder")}
MlIds == {1, 2}
MaxList == 2

\* The scalar arguments of create_or_update_movie_by_ml_id: every one given,
\* and every optional one left at its default (crud.py 44-49).
ScalarChoices ==
    { [title |-> "Heat", release_year |-> Some(1995),
       description |-> Some("A 1995 film"), rating |-> Some(450),
       rating_count |-> 2, poster_url |-> Some("/heat.jpg"),
       tmdb_id |-> Some(949)],
      [title |-> "Heat", release_year |-> None, description |-> None,
       rating |-> None, rating_count |-> 0, poster_url |-> None,
       tmdb_id |-> None] }

\* The lists of at most MaxList entities among the n rows of a table.
Lists(n) == UNION {[1..k -> 1..n] : k \in 0..MaxList}

\* A relationship argument: omitted (None) or a list.
ListArgs(n) == {None} \cup {Some(l) : l \in Lists(n)}

MovieArgs(ml_id, s, director, actors, genres) ==
    [ml_id |-> ml_id, title |-> s.title, release_year |-> s.release_year,
     description |-> s.description, rating |-> s.rating,
     rating_count |-> s.rating_count, poster_url |-> s.poster_url,
     tmdb_id |-> s.tmdb_id, director |-> director, actors |-> actors,
     genres |-> genres]

NoArgs == MovieArgs(0, [title |-> "", release_year |-> None, description |-> None,
                        rating |-> None, rating_count |-> 0, poster_url |-> None,
                        tmdb_id |-> None], 0, None, None)

NoRow == [ml_id |-> 0, title |-> "", release_year |-> None, description |-> None,
          rating |-> None, rating_count |-> 0, poster_url |-> None,
          tmdb_id |-> None, director_id |-> 0, actors |-> {}, genres |-> {}]

crudVars == <<writers, pc, call, returned, ncalls>>

seedVars == <<movies_file, ratings_file, api_key, spc, err, movie_ratings, pos,
              processed, cur, run, snap, answers, stable, stops, net, summary,
              synth, title_arg, title_ret, fn, fn_arg, fn_ret>>

\* A session's call: the function, its arguments, what its lookup found and
\* loaded, and once it is over the id it returned or the exception it raised.
Call(op, name, bio, args, found, loaded) ==
    [op |-> op, name |-> name, bio |-> bio, args |-> args, found |-> found,
     loaded |-> loaded, ret |-> 0, error |-> "none"]

NoCall == Call("none", "", None, NoArgs, 0, NoRow)

\* The call of session w is over: it returned r.id or raised r.error.  An
\* exception leaves crud.py uncaught; in seed_movies it is logged and raised
\* again (seed_movielens.py 281-285), which ends the session.
Finish(w, r, kind) ==
    /\ db' = r.db
    /\ pc' = [pc EXCEPT ![w] = IF r.error = "none" THEN "idle" ELSE "failed"]
    /\ call' = [call EXCEPT ![w].ret = r.id, ![w].error = r.error]
    /\ returned' = IF r.error = "none" /\ kind # "movie"
                   THEN returned \cup {<<kind, call[w].name, r.id>>}
                   ELSE returned
    /\ UNCHANGED <<writers, ncalls, seedVars>>

Begin(w, c) ==
    /\ pc[w] = "idle"
    /\ ncalls < (IF Cardinality(writers) = 1 THEN MaxCalls ELSE MaxCallsTwo)
    /\ pc' = [pc EXCEPT ![w] = "queried"]
    /\ call' = [call EXCEPT ![w] = c]
    /\ ncalls' = ncalls + 1
    /\ UNCHANGED <<db, writers, returned, seedVars>>

\* crud.py 9: the lookup of get_or_create_genre.
GenreLookup(w, name) ==
    \E found \in First(GenresNamed(db, name)) :
        Begin(w, Call("genre", name, None, NoArgs, found, NoRow))

\* crud.py 10-15.
GenreCommit(w) ==
    /\ pc[w] = "queried" /\ call[w].op = "genre"
    /\ Finish(w, get_or_create_genre_commit(db, call[w].name, call[w].found), "genre")

\* crud.py 20.
DirectorLookup(w, name, bio) ==
    \E found \in First(DirectorsNamed(db, name)) :
        Begin(w, Call("director", name, bio, NoArgs, found, NoRow))

\* crud.py 21-26.
DirectorCommit(w) ==
    /\ pc[w] = "queried" /\ call[w].op = "director"
    /\ Finish(w, get_or_create_director_commit(db, call[w].name, call[w].bio,
                                               call[w].found), "director")

\* crud.py 31.
ActorLookup(w, name, bio) ==
    \E found \in First(ActorsNamed(db, name)) :
        Begin(w, Call("actor", name, bio, NoArgs, found, NoRow))

\* crud.py 32-37.
ActorCommit(w) ==
    /\ pc[w] = "queried" /\ call[w].op = "actor"
    /\ Finish(w, get_or_create_actor_commit(db, call[w].name, call[w].bio,
                                            call[w].found), "actor")

\* crud.py 55, and the load of the found Movie's row and collections that
\* the assignments of 59-67 and 85-87 compare with.
MovieLookup(w, a) ==
    \E found \in First(MoviesWithMlId(db, a.ml_id)) :
        Begin(w, Call("movie", "", None, a, found,
                      IF found = 0 THEN NoRow ELSE db.movies[found]))

\* crud.py 57-91.
MovieCommit(w) ==
    /\ pc[w] = "queried" /\ call[w].op = "movie"
    /\ \E sane \in BOOLEAN :
        Finish(w, create_or_update_movie_commit(db, call[w].args, call[w].found,
                                                call[w].loaded, sane), "movie")

\* ------------------------------------------- seed_movielens.py: functions

\* A str is a sequence of one-character strings where the code looks into it
\* (csv fields), and a TLA+ string once it is a name or a title.
RECURSIVE Join(_)
Join(chars) == IF chars = <<>> THEN "" ELSE Head(chars) \o Join(Tail(chars))

Digits == {"0", "1", "2", "3", "4", "5", "6", "7", "8", "9"}

DigitValue(c) == CASE c = "0" -> 0 [] c = "1" -> 1 [] c = "2" -> 2 [] c = "3" -> 3
                   [] c = "4" -> 4 [] c = "5" -> 5 [] c = "6" -> 6 [] c = "7" -> 7
                   [] c = "8" -> 8 [] c = "9" -> 9

IsSpace(c) == c = " "

\* str.strip()
RECURSIVE LStrip(_)
LStrip(chars) ==
    IF chars # <<>> /\ IsSpace(Head(chars)) THEN LStrip(Tail(chars)) ELSE chars

RECURSIVE RStrip(_)
RStrip(chars) ==
    IF chars # <<>> /\ IsSpace(chars[Len(chars)])
    THEN RStrip(SubSeq(chars, 1, Len(chars) - 1)) ELSE chars

Strip(chars) == RStrip(LStrip(chars))

RECURSIVE DecimalValue(_)
DecimalValue(chars) ==
    IF chars = <<>> THEN 0
    ELSE 10 * DecimalValue(SubSeq(chars, 1, Len(chars) - 1)) + DigitValue(chars[Len(chars)])

\* int(field): the value of a decimal numeral, surrounding whitespace
\* allowed; None stands for the ValueError anything else raises.
ParseInt(chars) ==
    LET t == Strip(chars)
    IN  IF t # <<>> /\ \A i \in 1..Len(t) : t[i] \in Digits
        THEN Some(DecimalValue(t)) ELSE None

\* A faulty extract_year_from_title that matches the title as it is given,
\* not stripped.
year_of_unstripped_title(title) ==
    LET t == title
        n == Len(t)
        matches == /\ n >= 7
                   /\ t[n] = ")"
                   /\ t[n - 5] = "("
                   /\ \A i \in (n - 4)..(n - 1) : t[i] \in Digits
        head == SubSeq(t, 1, n - 6)
        group1 == RStrip(head)
    IN  IF matches
        THEN [title |-> Strip(group1), year |-> Some(DecimalValue(SubSeq(t, n - 4, n - 1)))]
        ELSE [title |-> Strip(t), year |-> None]

\* seed_movielens.py 38-45: re.search(r'^(.+?)\s*\((\d{4})\)$', title.strip()).
\* The match ends with "(dddd)"; the lazy group 1 is the shortest non-empty
\* prefix that only whitespace separates from the parenthesis (the stripped
\* title starts with no whitespace, so a non-empty head strips to non-empty).
extract_year_from_title(title) ==
    LET t == Strip(title)
        n == Len(t)
        matches == /\ n >= 7
                   /\ t[n] = ")"
                   /\ t[n - 5] = "("
                   /\ \A i \in (n - 4)..(n - 1) : t[i] \in Digits
        head == SubSeq(t, 1, n - 6)
        group1 == RStrip(head)
    IN  IF matches
        THEN [title |-> Strip(group1), year |-> Some(DecimalValue(SubSeq(t, n - 4, n - 1)))]
        ELSE [title |-> t, year |-> None]

\* str.split("|")
RECURSIVE SplitBar(_, _)
SplitBar(chars, token) ==
    IF chars = <<>> THEN <<token>>
    ELSE IF Head(chars) = "|" THEN <<token>> \o SplitBar(Tail(chars), <<>>)
    ELSE SplitBar(Tail(chars), Append(token, Head(chars)))

NoGenresListed ==
    <<"(", "n", "o", " ", "g", "e", "n", "r", "e", "s", " ",
      "l", "i", "s", "t", "e", "d", ")">>

RECURSIVE StripAndDropEmpty(_)
StripAndDropEmpty(tokens) ==
    IF tokens = <<>> THEN <<>>
    ELSE IF Strip(Head(tokens)) = <<>> THEN StripAndDropEmpty(Tail(tokens))
    ELSE <<Strip(Head(tokens))>> \o StripAndDropEmpty(Tail(tokens))

\* seed_movielens.py 48-52
parse_genres(genre_string) ==
    IF genre_string = <<>> \/ genre_string = NoGenresListed THEN <<>>
    ELSE StripAndDropEmpty(SplitBar(genre_string, <<>>))

\* A rating is kept in hundredths (4.5 is 450).
RECURSIVE SumRatings(_, _)
SumRatings(events, movie_id) ==
    IF events = <<>> THEN 0
    ELSE (IF Head(events).movieId = movie_id THEN Head(events).rating ELSE 0)
         + SumRatings(Tail(events), movie_id)

CountRatings(events, movie_id) ==
    Cardinality({i \in 1..Len(events) : events[i].movieId = movie_id})

\* A faulty mean that drops what is below a hundredth.
mean_truncated(sum, count) == sum \div count

\* round(sum / count, 2) on hundredths: to the nearest, a tie to the even one.
RoundDiv(sum, count) ==
    LET q == sum \div count
        r == sum % count
    IN  IF 2 * r < count THEN q
        ELSE IF 2 * r > count THEN q + 1
        ELSE IF q % 2 = 0 THEN q ELSE q + 1

\* seed_movielens.py 55-78: {} when the file is missing, else the mean and
\* the count of the ratings of every movie id the file names.
calculate_ratings(file) ==
    IF file = None THEN [m \in {} |-> <<None, 0>>]
    ELSE LET events == file[1]
             ids == {events[i].movieId : i \in 1..Len(events)}
         IN  [m \in ids |-> <<Some(RoundDiv(SumRatings(events, m), CountRatings(events, m))),
                              CountRatings(events, m)>>]

\* f"{hash_val:03d}"
Pad3(n) == IF n < 10 THEN "00" \o ToString(n)
           ELSE IF n < 100 THEN "0" \o ToString(n)
           ELSE ToString(n)

\* A faulty synthesizer whose director name depends on the run.
director_named_after_run(movie_ml_id) ==
    "Director_" \o Pad3((movie_ml_id * 17 + 42 + run) % 1000)

\* seed_movielens.py 130-134
deterministic_placeholder_director(movie_ml_id) ==
    "Director_" \o Pad3((movie_ml_id * 17 + 42) % 1000)

\* A faulty synthesizer whose hash leaves the slot out.
actors_named_without_slot(movie_ml_id) ==
    [i \in 1..5 |-> "Actor_" \o Pad3((movie_ml_id * 23) % 1000)]

\* seed_movielens.py 137-144, top_n = 5
deterministic_placeholder_actors(movie_ml_id) ==
    [i \in 1..5 |-> "Actor_" \o Pad3((movie_ml_id * 23 + (i - 1) * 13) % 1000)]

\* crud.py 7-15, 18-26, 29-37 as one session runs them, nothing in between.
get_or_create_genre(d, name) ==
    get_or_create_genre_commit(d, name, CHOOSE f \in First(GenresNamed(d, name)) : TRUE)

get_or_create_director(d, name, bio) ==
    get_or_create_director_commit(d, name, bio,
        CHOOSE f \in First(DirectorsNamed(d, name)) : TRUE)

get_or_create_actor(d, name, bio) ==
    get_or_create_actor_commit(d, name, bio,
        CHOOSE f \in First(ActorsNamed(d, name)) : TRUE)

\* crud.py 40-91 as one session runs it.
create_or_update_movie_by_ml_id(d, a) ==
    LET found == CHOOSE f \in First(MoviesWithMlId(d, a.ml_id)) : TRUE
    IN  create_or_update_movie_commit(d, a, found,
            IF found = 0 THEN NoRow ELSE d.movies[found], TRUE)

\* The outcome of resolving a list of names: the catalog, the entities in
\* the order of the names, and the exception that cut it short.
Resolved(d, ids, error) == [db |-> d, ids |-> ids, error |-> error]

\* seed_movielens.py 234: [crud.get_or_create_genre(db, name) for name in genre_names]
RECURSIVE ResolveGenres(_, _)
ResolveGenres(d, names) ==
    IF names = <<>> THEN Resolved(d, <<>>, "none")
    ELSE LET r == get_or_create_genre(d, Head(names))
         IN  IF r.error # "none" THEN Resolved(r.db, <<>>, r.error)
             ELSE LET rest == ResolveGenres(r.db, Tail(names))
                  IN  Resolved(rest.db, <<r.id>> \o rest.ids, rest.error)

\* seed_movielens.py 195-197: get_or_create_actor for every name.
RECURSIVE ResolveActors(_, _, _)
ResolveActors(d, names, bio) ==
    IF names = <<>> THEN Resolved(d, <<>>, "none")
    ELSE LET r == get_or_create_actor(d, Head(names), bio)
             rest == ResolveActors(r.db, Tail(names), bio)
         IN  Resolved(rest.db, <<r.id>> \o rest.ids, rest.error)

\* seed_movielens.py 179-182: get_or_create_actor for every entry of the
\* cast; actor_data['name'] raises KeyError on an entry that has no name,
\* after the actors of the entries before it were committed.
RECURSIVE ResolveCast(_, _)
ResolveCast(d, cast) ==
    IF cast = <<>> THEN Resolved(d, <<>>, "none")
    ELSE IF "name" \notin DOMAIN Head(cast) THEN Resolved(d, <<>>, "KeyError")
    ELSE LET r == get_or_create_actor(d, Head(cast).name, None)
             rest == ResolveCast(r.db, Tail(cast))
         IN  Resolved(rest.db, <<r.id>> \o rest.ids, rest.error)

\* What enrichment or placeholder synthesis hands back to seed_movies: the
\* catalog after it and the tuple it returns.
Enriched(d, tmdb_id, poster_url, director, actors) ==
    [db |-> d, tmdb_id |-> tmdb_id, poster_url |-> poster_url,
     director |-> director, actors |-> actors, error |-> "none"]

\* enrich_movie_with_tmdb raised: the catalog after it and no tuple.
Raised(d, error) ==
    [db |-> d, tmdb_id |-> None, poster_url |-> None, director |-> 0,
     actors |-> <<>>, error |-> error]

\* seed_movielens.py 89-105: the first result of the response, None when the
\* request failed (response None) or found nothing.
search_movie(response) ==
    IF response = None THEN None
    ELSE IF response[1].results = <<>> THEN None
    ELSE Some(response[1].results[1])

\* seed_movielens.py 118-127: the response, None when the request failed.
get_movie_credits(response) == response

\* A faulty selection that takes the whole cast.
whole_cast(cast) == cast

\* cast[:8]
TopCast(cast) == SubSeq(cast, 1, IF Len(cast) < 8 THEN Len(cast) ELSE 8)

\* [c for c in crew if c.get('job') == 'Director']
RECURSIVE DirectorsOf(_)
DirectorsOf(crew) ==
    IF crew = <<>> THEN <<>>
    ELSE (IF Head(crew).job = "Director" THEN <<Head(crew).name>> ELSE <<>>)
         \o DirectorsOf(Tail(crew))

\* seed_movielens.py 147-185.  answer is what TMDb gives this call: search is
\* None when search_movie returns None (no result, or a failed request), else
\* the first result; credits is None when get_movie_credits returns None.
enrich_movie_with_tmdb(d, answer) ==
    IF answer.search = None THEN Enriched(d, None, None, 0, <<>>)
    ELSE LET movie_data == answer.search[1]
             poster_url == IF movie_data.poster_path = None THEN None
                           ELSE Some("https://image.tmdb.org/t/p/w500"
                                     \o movie_data.poster_path[1])
         IN  IF answer.credits = None
             THEN Enriched(d, Some(movie_data.id), poster_url, 0, <<>>)
             ELSE LET credits == answer.credits[1]
                      directors == DirectorsOf(credits.crew)
                      dr == IF directors = <<>> THEN Result(d, 0, "none")
                            ELSE get_or_create_director(d, directors[1], None)
                      ar == ResolveCast(dr.db, TopCast(credits.cast))
                  IN  IF ar.error # "none" THEN Raised(ar.db, ar.error)
                      ELSE Enriched(ar.db, Some(movie_data.id), poster_url,
                                    dr.id, ar.ids)

\* seed_movielens.py 155-185: what the enricher does on the network during one
\* enrich_movie_with_tmdb: the search request (155), after a result the
\* credits request (164), and the delay of 184 when the function gets there
\* (it returns at 157 after a search without result, and an exception leaves
\* it before 184).
Outbound(d, answer) ==
    IF answer.search = None THEN <<"search">>
    ELSE IF enrich_movie_with_tmdb(d, answer).error # "none"
         THEN <<"search", "credits">>
    ELSE <<"search", "credits", "sleep">>

\* A faulty create_placeholder_data that synthesizes the director alone.
placeholder_director_only(d, movie_ml_id) ==
    LET dr == get_or_create_director(d, deterministic_placeholder_director(movie_ml_id),
                                     Some("Placeholder director"))
    IN  Enriched(dr.db, None, None, dr.id, <<>>)

\* seed_movielens.py 188-199
create_placeholder_data(d, movie_ml_id) ==
    LET dr == get_or_create_director(d, deterministic_placeholder_director(movie_ml_id),
                                     Some("Placeholder director"))
        ar == ResolveActors(dr.db, deterministic_placeholder_actors(movie_ml_id),
                            Some("Placeholder actor"))
    IN  Enriched(ar.db, None, None, dr.id, ar.ids)

\* ----------------------------------------- seed_movielens.py: seed_movies

\* The locals of one iteration of the loop of seed_movies (221-254); e is
\* the exception 247 caught ("none": it caught none).
Locals(movie_id, title, year, rating, rating_count, genre_names) ==
    [movie_id |-> movie_id, title |-> title, year |-> year, rating |-> rating,
     rating_count |-> rating_count, genre_names |-> genre_names,
     genres |-> <<>>, tmdb_id |-> None, poster_url |-> None, director |-> 0,
     actors |-> <<>>, e |-> "none"]

NoLocals == Locals(0, "", None, None, 0, <<>>)

JoinAll(tokens) == [i \in 1..Len(tokens) |-> Join(tokens[i])]

\* A faulty lookup whose default is a rating of 0.0.
rating_defaults_to_zero(ratings, movie_id) ==
    IF movie_id \in DOMAIN ratings THEN ratings[movie_id] ELSE <<Some(0), 0>>

\* movie_ratings.get(movie_id, (None, 0))
RatingOf(ratings, movie_id) ==
    IF movie_id \in DOMAIN ratings THEN ratings[movie_id] ELSE <<None, 0>>

\* seed_movielens.py 222-233, 237-240: the locals after a row is read and
\* parsed, given that int(row['movieId']) returned movie_id.
RowLocals(row, movie_id, ratings) ==
    LET ty == extract_year_from_title(row.title)
    IN  Locals(movie_id, Join(ty.title), ty.year,
               RatingOf(ratings, movie_id)[1], RatingOf(ratings, movie_id)[2],
               JoinAll(parse_genres(row.genres)))

\* seed_movielens.py 243-248: the locals once enrich_movie_with_tmdb returned
\* e, or raised, which leaves the four locals as 237-240 set them.
WithEnrichment(c, e) ==
    IF e.error # "none" THEN [c EXCEPT !.e = e.error]
    ELSE [c EXCEPT !.tmdb_id = e.tmdb_id, !.poster_url = e.poster_url,
                   !.director = e.director, !.actors = e.actors]

\* A faulty fallback that leaves the row without the placeholders.
placeholders_not_used(c, p) == c

\* A faulty fallback that takes the placeholder actors whatever the
\* enrichment gave.
placeholder_cast_always(c, p) ==
    [c EXCEPT !.director = p.director, !.actors = p.actors]

\* seed_movielens.py 252-254: the locals once create_placeholder_data
\* returned p.
WithPlaceholders(c, p) ==
    [c EXCEPT !.director = p.director,
              !.actors = IF c.actors = <<>> THEN p.actors ELSE c.actors]

\* f"A {year} film" if year else "A classic film"
Description(year) ==
    IF year # None /\ year[1] # 0 THEN "A " \o ToString(year[1]) \o " film"
    ELSE "A classic film"

\* A faulty upsert call that leaves the tmdb_id out.
tmdb_id_not_passed(c) ==
    [ml_id |-> c.movie_id, title |-> c.title, release_year |-> c.year,
     description |-> Some(Description(c.year)), rating |-> c.rating,
     rating_count |-> c.rating_count, poster_url |-> c.poster_url,
     tmdb_id |-> None, director |-> c.director,
     actors |-> Some(c.actors), genres |-> Some(c.genres)]

\* seed_movielens.py 257-270: the arguments of the upsert.
UpsertArgs(c) ==
    [ml_id |-> c.movie_id, title |-> c.title, release_year |-> c.year,
     description |-> Some(Description(c.year)), rating |-> c.rating,
     rating_count |-> c.rating_count, poster_url |-> c.poster_url,
     tmdb_id |-> c.tmdb_id, director |-> c.director,
     actors |-> Some(c.actors), genres |-> Some(c.genres)]

\* seed_movielens.py 221-272: one iteration of the loop, whole.  answer is
\* what TMDb answers when it is asked (None: it is not asked).
process_row(d, row, ratings, key, answer) ==
    LET movie_id == ParseInt(row.movieId)
    IN  IF movie_id = None THEN Result(d, 0, "ValueError")
        ELSE LET c0 == RowLocals(row, movie_id[1], ratings)
                 g == ResolveGenres(d, c0.genre_names)
                 c1 == [c0 EXCEPT !.genres = g.ids]
                 e == IF key THEN enrich_movie_with_tmdb(g.db, answer[1])
                      ELSE Enriched(g.db, None, None, 0, <<>>)
                 c2 == WithEnrichment(c1, e)
                 p == create_placeholder_data(e.db, c2.movie_id)
                 c3 == IF c2.director = 0 THEN WithPlaceholders(c2, p) ELSE c2
                 d3 == IF c2.director = 0 THEN p.db ELSE e.db
             IN  IF g.error # "none" THEN Result(g.db, 0, g.error)
                 ELSE create_or_update_movie_by_ml_id(d3, UpsertArgs(c3))

\* seed_movielens.py 216-285 run from row i on without a stop: the catalog
\* it leaves and the state it ends in.
RECURSIVE seed_rows(_, _, _, _, _, _)
seed_rows(d, rows, i, ratings, key, ans) ==
    IF i > Len(rows) THEN [db |-> d, spc |-> "completed", err |-> "none"]
    ELSE LET r == process_row(d, rows[i], ratings, key, ans[i])
         IN  IF r.error # "none" THEN [db |-> r.db, spc |-> "failed", err |-> r.error]
             ELSE seed_rows(r.db, rows, i + 1, ratings, key, ans)

\* seed_movielens.py 288-305 on an empty catalog, never stopped.
Uninterrupted(file, ratings, key, ans) ==
    IF file = None THEN [db |-> EmptyDb, spc |-> "failed", err |-> "FileNotFoundError"]
    ELSE seed_rows(EmptyDb, file[1], 1, calculate_ratings(ratings), key, ans)

Counts(d) == [movies |-> Len(d.movies), directors |-> Len(d.directors),
              actors |-> Len(d.actors), genres |-> Len(d.genres)]

\* ---------------------------------------------------------- the inputs

MaxRows == 2
MaxRuns == 2

HeatRow == [movieId |-> <<"1">>,
            title |-> <<"H", "e", "a", "t", " ", "(", "1", "9", "9", "5", ")">>,
            genres |-> <<"A", "c", "t", "i", "o", "n", "|", "C", "r", "i", "m", "e">>]

UpRow == [movieId |-> <<"2">>, title |-> <<"U", "p">>, genres |-> NoGenresListed]

\* A row whose genres name a genre twice.
DupRow == [movieId |-> <<"3">>, title |-> <<"R", "a", "n">>,
           genres |-> <<"W", "a", "r", "|", "W", "a", "r">>]

\* A row whose movieId is no number.
BadRow == [movieId |-> <<"x">>, title |-> <<"B", "a", "d">>,
           genres |-> <<"D", "r", "a", "m", "a">>]

RowSet == {HeatRow, UpRow, BadRow}

\* movies.csv: missing, or at most MaxRows of the rows.
FilesOf(rows) == {None} \cup {Some(f) : f \in UNION {[1..n -> rows] : n \in 0..MaxRows}}

MovieFiles == FilesOf(RowSet)

\* The files of a single run, the row with a repeated genre among the rows.
AnyMovieFiles == FilesOf(RowSet \cup {DupRow})

RatingFiles == {None,
                Some(<<[movieId |-> 1, rating |-> 400], [movieId |-> 1, rating |-> 500],
                       [movieId |-> 3, rating |-> 300]>>)}

\* What TMDb may answer one enrichment: nothing, a movie with its credits, a
\* movie whose credits request fails.
TmdbAnswers ==
    { [search |-> None, credits |-> None],
      [search |-> Some([id |-> 949, poster_path |-> Some("/heat.jpg")]),
       credits |-> Some([crew |-> <<[job |-> "Producer", name |-> "Art Linson"],
                                    [job |-> "Director", name |-> "Michael Mann"]>>,
                         cast |-> <<[name |-> "Al Pacino"],
                                    [name |-> "Robert De Niro"]>>])],
      [search |-> Some([id |-> 949, poster_path |-> None]), credits |-> None] }

\* An answer on which enrich_movie_with_tmdb raises: a movie whose credits
\* have a cast entry without a name.
NamelessCast ==
    [search |-> Some([id |-> 949, poster_path |-> Some("/heat.jpg")]),
     credits |-> Some([crew |-> <<[job |-> "Director", name |-> "Michael Mann"]>>,
                       cast |-> <<[name |-> "Al Pacino"],
                                  [character |-> "Neil McCauley"]>>])]

\* A movie whose credits name a director and no cast.
DirectorOnly ==
    [search |-> Some([id |-> 949, poster_path |-> None]),
     credits |-> Some([crew |-> <<[job |-> "Director", name |-> "Michael Mann"]>>,
                       cast |-> <<>>])]

\* A movie whose credits name a cast and no director.
CastOnly ==
    [search |-> Some([id |-> 949, poster_path |-> None]),
     credits |-> Some([crew |-> <<[job |-> "Producer", name |-> "Art Linson"]>>,
                       cast |-> <<[name |-> "Al Pacino"]>>])]

\* The answers of a single run.
AnyTmdbAnswers == TmdbAnswers \cup {NamelessCast, DirectorOnly, CastOnly}

\* The titles extract_year_from_title is called with: leading whitespace, a
\* name, a gap, what stands where the year would, and what follows it.
TitleLeads == {<<>>, <<" ">>}
TitleNames == {<<>>, <<"U", "p">>, <<"(">>,
               <<"A", " ", "(", "1", "9", "9", "9", ")">>}
TitleGaps == {<<>>, <<" ">>, <<" ", " ">>}
TitleYears == {<<>>,
               <<"(", "1", "9", "9", "5", ")">>,
               <<"(", "0", "0", "0", "0", ")">>,
               <<"(", "1", "9", "9", ")">>,
               <<"(", "1", "9", "9", "5", "5", ")">>,
               <<"(", "1", "9", "x", "5", ")">>,
               <<"(", "1", "9", "9", "5">>,
               <<"1", "9", "9", "5">>}
TitleTrails == {<<>>, <<" ">>, <<"!">>}

Titles == {l \o n \o g \o y \o t :
              l \in TitleLeads, n \in TitleNames, g \in TitleGaps,
              y \in TitleYears, t \in TitleTrails}

\* The genre strings parse_genres is called with: up to three tokens
\* between bars.
GenreStrings ==
    LET tokens == {<<>>, <<" ">>, <<"W", "a", "r">>, <<" ", "W", "a", "r", " ">>,
                   <<"D", "r", "a", "m", "a">>, NoGenresListed,
                   <<" ">> \o NoGenresListed}
    IN  tokens
        \cup {t \o <<"|">> \o u : t, u \in tokens}
        \cup {t \o <<"|">> \o u \o <<"|">> \o v : t, u, v \in tokens}

\* The rating logs calculate_ratings is called with: missing, or at most
\* MaxEvents events.
MaxEvents == 3

RatingLogs ==
    LET events == {[movieId |-> m, rating |-> r] : m \in {1, 2}, r \in {50, 400, 450, 500}}
    IN  {None} \cup {Some(l) : l \in UNION {[1..n -> events] : n \in 0..MaxEvents}}

\* The movie ids deterministic_placeholder_actors is called with.
MaxMovieId == 999

\* What TMDb may respond to the search request and to the credits request.
HeatResult == [id |-> 949, poster_path |-> Some("/heat.jpg")]
OtherResult == [id |-> 1234, poster_path |-> None]

SearchResponses ==
    {None, Some([results |-> <<>>]), Some([results |-> <<HeatResult>>]),
     Some([results |-> <<HeatResult, OtherResult>>]),
     Some([results |-> <<OtherResult, HeatResult>>])}

CastList == <<[name |-> "Al Pacino"], [name |-> "Robert De Niro"],
              [name |-> "Val Kilmer"], [name |-> "Jon Voight"],
              [name |-> "Tom Sizemore"], [name |-> "Diane Venora"],
              [name |-> "Amy Brenneman"], [name |-> "Ashley Judd"],
              [name |-> "Mykelti Williamson"], [name |-> "Wes Studi"]>>

CreditsResponses ==
    LET casts == {SubSeq(CastList, 1, n) : n \in 0..Len(CastList)}
                 \cup {<<[name |-> "Al Pacino"], [name |-> "Al Pacino"]>>}
        crews == {<<>>,
                  <<[job |-> "Producer", name |-> "Art Linson"]>>,
                  <<[job |-> "Producer", name |-> "Art Linson"],
                    [job |-> "Director", name |-> "Michael Mann"],
                    [job |-> "Director", name |-> "Ridley Scott"]>>,
                  <<[job |-> "Director", name |-> "Ridley Scott"],
                    [job |-> "Producer", name |-> "Art Linson"],
                    [job |-> "Director", name |-> "Michael Mann"]>>}
    IN  {None} \cup {Some([crew |-> crew, cast |-> cast]) : crew \in crews, cast \in casts}

\* The catalogs get_movies_filtered is called on: two genres, two directors,
\* three actors, and two movies that vary in their actors, genres and
\* director.
QueryMovie(ml_id, title, year, director, actors, genres) ==
    [ml_id |-> ml_id, title |-> title, release_year |-> Some(year),
     description |-> None, rating |-> None, rating_count |-> 0,
     poster_url |-> None, tmdb_id |-> None, director_id |-> director,
     actors |-> actors, genres |-> genres]

QueryCatalogs ==
    {[genres |-> <<[name |-> <<"A", "c", "t", "i", "o", "n">>],
                   [name |-> <<"C", "o", "m", "e", "d", "y">>]>>,
      directors |-> <<[name |-> <<"J", "o", "h", "n", " ", "D">>, bio |-> None],
                      [name |-> <<"J", "a", "n", "e", " ", "D">>, bio |-> None]>>,
      actors |-> <<[name |-> <<"T", "o", "m", " ", "A">>, bio |-> None],
                   [name |-> <<"J", "a", "n", "e", " ", "A">>, bio |-> None],
                   [name |-> <<"B", "o", "b", " ", "A">>, bio |-> None]>>,
      movies |-> <<QueryMovie(1, <<"M", "o", "v", "i", "e", " ", "1">>, 1995, 1, a1, g1),
                   QueryMovie(2, <<"M", "o", "v", "i", "e", " ", "2">>, 2000, d2, a2, g2)>>] :
        a1 \in {{1}, {1, 2}}, g1 \in {{1}, {1, 2}},
        d2 \in {0, 2}, a2 \in {{}, {2, 3}}, g2 \in {{2}, {1, 2}}}

\* The calls of get_movies_filtered: each filter absent or given, the first
\* page or a later one, the default limit or a smaller one.
Queries ==
    [genre : {None, Some(<<"a", "c", "t", "i", "o", "n">>), Some(<<"o">>)},
     actor : {None, Some(<<"J", "a", "n", "e">>), Some(<<"a">>)},
     director : {None, Some(<<"j", "o", "h", "n">>)},
     release_year : {None, Some(1995), Some(0)},
     search : {None, Some(<<"1">>)},
     skip : {0, 1},
     limit : {1, 100}]

\* ---------------------------------------------------------- the pipeline

\* A faulty main() that goes on to seed_movies without the aggregate.
ratings_not_aggregated ==
    /\ spc = "main"
    /\ spc' = "seed"
    /\ UNCHANGED <<db, crudVars, movies_file, ratings_file, api_key, err,
                   movie_ratings, pos, processed, cur, run, snap, answers, stable,
                   stops, net, summary, synth, title_arg, title_ret, fn, fn_arg, fn_ret>>

\* seed_movielens.py 299-300: main() calls calculate_ratings.
MainCalculateRatings ==
    /\ spc = "main"
    /\ movie_ratings' = calculate_ratings(ratings_file)
    /\ spc' = "seed"
    /\ UNCHANGED <<db, crudVars, movies_file, ratings_file, api_key, err, pos,
                   processed, cur, run, snap, answers, stable, stops>>
    /\ UNCHANGED <<net, summary, synth, title_arg, title_ret, fn, fn_arg, fn_ret>>

\* seed_movielens.py 207-219, 278-280: the file is opened; a missing file is
\* logged and raised again.
SeedOpen ==
    /\ spc = "seed"
    /\ IF movies_file = None
       THEN spc' = "failed" /\ err' = "FileNotFoundError"
       ELSE spc' = "row" /\ err' = err
    /\ pos' = 0
    /\ processed' = 0
    /\ UNCHANGED <<db, crudVars, movies_file, ratings_file, api_key, movie_ratings,
                   cur, run, snap, answers, stable, stops>>
    /\ UNCHANGED <<net, summary, synth, title_arg, title_ret, fn, fn_arg, fn_ret>>

\* seed_movielens.py 221-233: the reader hands out the next row, which is
\* parsed; a movieId that is no number raises ValueError, which 281-283 log
\* and raise again.
SeedRow ==
    /\ spc = "row"
    /\ pos < Len(movies_file[1])
    /\ LET row == movies_file[1][pos + 1]
           movie_id == ParseInt(row.movieId)
       IN  IF movie_id = None
           THEN spc' = "failed" /\ err' = "ValueError" /\ cur' = cur
           ELSE /\ spc' = "genres"
                /\ err' = err
                /\ cur' = RowLocals(row, movie_id[1], movie_ratings)
    /\ pos' = pos + 1
    /\ UNCHANGED <<db, crudVars, movies_file, ratings_file, api_key, movie_ratings,
                   processed, run, snap, answers, stable, stops>>
    /\ UNCHANGED <<net, summary, synth, title_arg, title_ret, fn, fn_arg, fn_ret>>

\* seed_movielens.py 234
SeedGenres ==
    /\ spc = "genres"
    /\ LET g == ResolveGenres(db, cur.genre_names)
       IN  /\ db' = g.db
           /\ IF g.error # "none"
              THEN spc' = "failed" /\ err' = g.error /\ cur' = cur
              ELSE /\ spc' = IF api_key THEN "enrich" ELSE "placeholder"
                   /\ err' = err
                   /\ cur' = [cur EXCEPT !.genres = g.ids]
    /\ UNCHANGED <<crudVars, movies_file, ratings_file, api_key, movie_ratings, pos,
                   processed, run, snap, answers, stable, stops>>
    /\ UNCHANGED <<net, summary, synth, title_arg, title_ret, fn, fn_arg, fn_ret>>

\* seed_movielens.py 242-246: the enricher is asked, and TMDb gives an answer.
SeedEnrich(answer) ==
    /\ spc = "enrich"
    /\ LET e == enrich_movie_with_tmdb(db, answer)
       IN  /\ db' = e.db
           /\ cur' = WithEnrichment(cur, e)
           /\ spc' = IF e.director = 0 THEN "placeholder" ELSE "upsert"
           /\ answers' = [answers EXCEPT ![pos] = Some(answer)]
           /\ stable' = (stable /\ answers[pos] \in {None, Some(answer)})
           /\ net' = net \o Outbound(db, answer)
    /\ UNCHANGED <<crudVars, movies_file, ratings_file, api_key, err, movie_ratings,
                   pos, processed, run, snap, stops>>
    /\ UNCHANGED <<summary, synth, title_arg, title_ret, fn, fn_arg, fn_ret>>

\* seed_movielens.py 251-254
SeedPlaceholder ==
    /\ spc = "placeholder"
    /\ LET p == create_placeholder_data(db, cur.movie_id)
       IN  /\ db' = p.db
           /\ cur' = WithPlaceholders(cur, p)
    /\ synth' = synth \cup {<<cur.movie_id,
                               deterministic_placeholder_director(cur.movie_id),
                               deterministic_placeholder_actors(cur.movie_id)>>}
    /\ spc' = "upsert"
    /\ UNCHANGED <<crudVars, movies_file, ratings_file, api_key, err, movie_ratings,
                   pos, processed, run, snap, answers, stable, stops>>
    /\ UNCHANGED <<net, summary, title_arg, title_ret, fn, fn_arg, fn_ret>>

\* seed_movielens.py 257-272
SeedUpsert ==
    /\ spc = "upsert"
    /\ LET r == create_or_update_movie_by_ml_id(db, UpsertArgs(cur))
       IN  /\ db' = r.db
           /\ IF r.error # "none"
              THEN spc' = "failed" /\ err' = r.error /\ processed' = processed
              ELSE spc' = "row" /\ err' = err /\ processed' = processed + 1
    /\ UNCHANGED <<crudVars, movies_file, ratings_file, api_key, movie_ratings, pos,
                   cur, run, snap, answers, stable, stops>>
    /\ UNCHANGED <<net, summary, synth, title_arg, title_ret, fn, fn_arg, fn_ret>>

\* seed_movielens.py 276, 285, 305: the reader is exhausted; the run logs
\* "Successfully seeded {processed} movies".
SeedDone ==
    /\ spc = "row"
    /\ pos = Len(movies_file[1])
    /\ spc' = "completed"
    /\ summary' = Some([processed |-> processed])
    /\ UNCHANGED <<db, crudVars, movies_file, ratings_file, api_key, err,
                   movie_ratings, pos, processed, cur, run, snap, answers, stable,
                   stops>>
    /\ UNCHANGED <<net, synth, title_arg, title_ret, fn, fn_arg, fn_ret>>

\* The process is stopped between two rows (spec.md section 5: a run may stop
\* between movie iterations).
Stop ==
    /\ spc = "row"
    /\ run < MaxRuns
    /\ spc' = "stopped"
    /\ stops' = Append(stops, pos)
    /\ UNCHANGED <<db, crudVars, movies_file, ratings_file, api_key, err,
                   movie_ratings, pos, processed, cur, run, snap, answers, stable>>
    /\ UNCHANGED <<net, summary, synth, title_arg, title_ret, fn, fn_arg, fn_ret>>

\* main() is started again over the same files and the same catalog.
StartAgain ==
    /\ run < MaxRuns
    /\ run' = run + 1
    /\ spc' = "main"
    /\ err' = "none"
    /\ movie_ratings' = calculate_ratings(None)
    /\ pos' = 0
    /\ processed' = 0
    /\ cur' = NoLocals
    /\ net' = <<>>
    /\ summary' = None
    /\ UNCHANGED <<db, crudVars, movies_file, ratings_file, api_key, answers, stable,
                   stops>>
    /\ UNCHANGED <<synth, title_arg, title_ret, fn, fn_arg, fn_ret>>

\* A stopped run is restarted from the first row.
Restart ==
    /\ spc = "stopped"
    /\ StartAgain
    /\ snap' = snap

\* The ingestion is run once more after a run that ended.
Rerun ==
    /\ spc \in {"completed", "failed"}
    /\ StartAgain
    /\ snap' = Some(Counts(db))

\* seed_movielens.py 38-45: a call of extract_year_from_title returns.
ExtractYear ==
    /\ title_arg # None
    /\ title_ret = None
    /\ title_ret' = Some(extract_year_from_title(title_arg[1]))
    /\ UNCHANGED <<db, crudVars, movies_file, ratings_file, api_key, spc, err,
                   movie_ratings, pos, processed, cur, run, snap, answers, stable,
                   stops, net, summary, synth, title_arg, fn, fn_arg, fn_ret>>

\* A function is called on its own and returns.
Returns(f, value) ==
    /\ fn = f
    /\ fn_ret = None
    /\ fn_ret' = Some(value)
    /\ UNCHANGED <<db, crudVars, movies_file, ratings_file, api_key, spc, err,
                   movie_ratings, pos, processed, cur, run, snap, answers, stable,
                   stops, net, summary, synth, title_arg, title_ret, fn, fn_arg>>

\* seed_movielens.py 48-52
CallParseGenres == Returns("parse_genres", parse_genres(fn_arg[1]))

\* seed_movielens.py 55-78
CallCalculateRatings == Returns("calculate_ratings", calculate_ratings(fn_arg[1]))

\* seed_movielens.py 137-144
CallPlaceholderActors ==
    Returns("deterministic_placeholder_actors",
            deterministic_placeholder_actors(fn_arg[1]))

\* seed_movielens.py 147-185 on an empty catalog, the enricher's two
\* requests answered by fn_arg[1].
CallEnrich ==
    Returns("enrich_movie_with_tmdb",
            enrich_movie_with_tmdb(EmptyDb,
                [search |-> search_movie(fn_arg[1].search),
                 credits |-> get_movie_credits(fn_arg[1].credits)]))

\* crud.py 94-132
CallGetMoviesFiltered ==
    /\ fn = "get_movies_filtered"
    /\ \E result \in get_movies_filtered(fn_arg[1].db, fn_arg[1].q) :
            Returns("get_movies_filtered", result)

\* ------------------------------------------------------ specifications

CrudIdle ==
    /\ writers = {}
    /\ pc = [w \in Sessions |-> "idle"]
    /\ call = [w \in Sessions |-> NoCall]
    /\ returned = {}
    /\ ncalls = 0

SeedIdle ==
    /\ movies_file = None
    /\ ratings_file = None
    /\ api_key = FALSE
    /\ spc = "off"
    /\ err = "none"
    /\ movie_ratings = calculate_ratings(None)
    /\ pos = 0
    /\ processed = 0
    /\ cur = NoLocals
    /\ run = 0
    /\ snap = None
    /\ answers = [i \in 1..MaxRows |-> None]
    /\ stable = TRUE
    /\ stops = <<>>
    /\ net = <<>>
    /\ summary = None
    /\ synth = {}

\* No call of extract_year_from_title on its own.
NoTitleCall == title_arg = None /\ title_ret = None

\* No call of another function on its own.
NoFunctionCall == fn = "none" /\ fn_arg = None /\ fn_ret = None

CrudInit(ws) ==
    /\ NoTitleCall
    /\ NoFunctionCall
    /\ db = EmptyDb
    /\ writers = ws
    /\ pc = [w \in Sessions |-> "idle"]
    /\ call = [w \in Sessions |-> NoCall]
    /\ returned = {}
    /\ ncalls = 0
    /\ SeedIdle

CrudNext ==
    \/ \E w \in writers, name \in GenreNames : GenreLookup(w, name)
    \/ \E w \in writers : GenreCommit(w)
    \/ \E w \in writers, name \in DirectorNames, bio \in Bios :
            DirectorLookup(w, name, bio)
    \/ \E w \in writers : DirectorCommit(w)
    \/ \E w \in writers, name \in ActorNames, bio \in Bios :
            ActorLookup(w, name, bio)
    \/ \E w \in writers : ActorCommit(w)
    \/ \E w \in writers, ml_id \in MlIds, s \in ScalarChoices,
          director \in 0..Len(db.directors),
          actors \in ListArgs(Len(db.actors)),
          genres \in ListArgs(Len(db.genres)) :
            MovieLookup(w, MovieArgs(ml_id, s, director, actors, genres))
    \/ \E w \in writers : MovieCommit(w)

\* main() on an empty catalog, over any of the input files, with or without
\* a TMDb key.
MainStarts(files) ==
    /\ NoTitleCall
    /\ NoFunctionCall
    /\ db = EmptyDb
    /\ CrudIdle
    /\ movies_file \in files
    /\ ratings_file \in RatingFiles
    /\ api_key \in BOOLEAN
    /\ spc = "main"
    /\ err = "none"
    /\ movie_ratings = calculate_ratings(None)
    /\ pos = 0
    /\ processed = 0
    /\ cur = NoLocals
    /\ run = 1
    /\ snap = None
    /\ answers = [i \in 1..MaxRows |-> None]
    /\ stable = TRUE
    /\ stops = <<>>
    /\ net = <<>>
    /\ summary = None
    /\ synth = {}

SeedInit == MainStarts(MovieFiles)

RunInit == MainStarts(AnyMovieFiles)

\* One run of main(), from its start to its end.
RunNext ==
    \/ MainCalculateRatings
    \/ SeedOpen
    \/ SeedRow
    \/ SeedGenres
    \/ \E answer \in AnyTmdbAnswers : SeedEnrich(answer)
    \/ SeedPlaceholder
    \/ SeedUpsert
    \/ SeedDone

SeedNext ==
    \/ MainCalculateRatings
    \/ SeedOpen
    \/ SeedRow
    \/ SeedGenres
    \/ \E answer \in TmdbAnswers : SeedEnrich(answer)
    \/ SeedPlaceholder
    \/ SeedUpsert
    \/ SeedDone
    \/ Stop
    \/ Restart
    \/ Rerun

vars == <<db, crudVars, seedVars>>

\* One session: the single writer of a pipeline run.
Spec == CrudInit({1}) /\ [][CrudNext]_vars

\* Two sessions: two pipeline instances on one catalog.
SpecTwo == CrudInit({1, 2}) /\ [][CrudNext]_vars

\* The pipeline: runs of main(), stopped and started again.
SpecSeed == SeedInit /\ [][SeedNext]_vars

\* The pipeline: one run of main() over any of the inputs.
SpecRun == RunInit /\ [][RunNext]_vars

\* A call of extract_year_from_title with any of the titles.
TitleInit ==
    /\ db = EmptyDb
    /\ CrudIdle
    /\ SeedIdle
    /\ title_arg \in {Some(t) : t \in Titles}
    /\ title_ret = None
    /\ NoFunctionCall

TitleNext == ExtractYear

SpecTitle == TitleInit /\ [][TitleNext]_vars

\* A call of function f on its own, with any of the arguments args.
CallsInit(f, args) ==
    /\ db = EmptyDb
    /\ CrudIdle
    /\ SeedIdle
    /\ NoTitleCall
    /\ fn = f
    /\ fn_arg \in {Some(arg) : arg \in args}
    /\ fn_ret = None

SpecGenres == CallsInit("parse_genres", GenreStrings) /\ [][CallParseGenres]_vars

SpecRatings ==
    CallsInit("calculate_ratings", RatingLogs) /\ [][CallCalculateRatings]_vars

SpecActors ==
    CallsInit("deterministic_placeholder_actors", 0..MaxMovieId)
    /\ [][CallPlaceholderActors]_vars

SpecEnrich ==
    CallsInit("enrich_movie_with_tmdb",
              [search : SearchResponses, credits : CreditsResponses])
    /\ [][CallEnrich]_vars

SpecQuery ==
    CallsInit("get_movies_filtered", [db : QueryCatalogs, q : Queries])
    /\ [][CallGetMoviesFiltered]_vars

\* ------------------------------------------------------------ the claims

\* A session's call of op has just returned or raised (its last step).
Finishes(w, op) == pc[w] = "queried" /\ pc'[w] # "queried" /\ call[w].op = op

\* A session is back from a call of op that returned.
Returned(w, op) == pc[w] = "idle" /\ call[w].op = op /\ call[w].error = "none"

UniqueMlId == \A i, j \in 1..Len(db.movies) :
                db.movies[i].ml_id = db.movies[j].ml_id => i = j

\* A create_or_update_movie_by_ml_id call whose ml_id a Movie already has
\* leaves the number of movies and every row's ml_id as they are, and, unless
\* a list names an entity twice, returns that Movie.
C1_UpdateInPlace ==
    \A w \in Sessions :
        (Finishes(w, "movie") /\ MoviesWithMlId(db, call[w].args.ml_id) # {}) =>
            /\ Len(db'.movies) = Len(db.movies)
            /\ \A i \in 1..Len(db.movies) : db'.movies[i].ml_id = db.movies[i].ml_id
            /\ call'[w].error = "none" => call'[w].ret \in MoviesWithMlId(db, call[w].args.ml_id)
            /\ (\A l \in Range(call[w].args.actors) \cup Range(call[w].args.genres) :
                    NoDuplicates(l)) => call'[w].error = "none"

\* C1: with a single writer the catalog holds at most one Movie per ml_id,
\* and a call whose ml_id already exists updates that Movie in place: same
\* row, same ml_id, no more movies than before.
C1_OneMoviePerMlId == [](UniqueMlId) /\ [][C1_UpdateInPlace]_vars

C1_Witness ==
    /\ Returned(1, "movie")
    /\ call[1].found # 0
    /\ call[1].ret = call[1].found
    /\ Len(db.movies) = 2

EntitiesNamed(kind, name) ==
    CASE kind = "genre" -> GenresNamed(db, name)
      [] kind = "director" -> DirectorsNamed(db, name)
      [] kind = "actor" -> ActorsNamed(db, name)

\* C2: with a single writer, every get_or_create_genre / _director / _actor
\* call returns the one entity of its kind that has the name: two calls with
\* the same name return the same id, and exactly one such entity exists.
C2_SameNameSameEntity ==
    /\ \A t \in returned : EntitiesNamed(t[1], t[2]) = {t[3]}
    /\ \A t, u \in returned : (t[1] = u[1] /\ t[2] = u[2]) => t[3] = u[3]

C2_Witness ==
    /\ call[1].op \in {"genre", "director", "actor"}
    /\ Returned(1, call[1].op)
    /\ call[1].found # 0
    /\ <<call[1].op, call[1].name, call[1].found>> \in returned
    /\ Cardinality(returned) >= 2

\* C5 as claimed: in every reachable catalog state of two interleaving
\* writers there is at most one Director, one Actor and one Genre per name.
C5_AtMostOnePerName ==
    /\ \A name \in DirectorNames : Cardinality(DirectorsNamed(db, name)) <= 1
    /\ \A name \in ActorNames : Cardinality(ActorsNamed(db, name)) <= 1
    /\ \A name \in GenreNames : Cardinality(GenresNamed(db, name)) <= 1

\* The lookup of the call of w found no Movie and another session has
\* inserted one with the same ml_id since.
InsertRace(w) ==
    /\ call[w].op = "movie"
    /\ call[w].found = 0
    /\ MoviesWithMlId(db, call[w].args.ml_id) # {}

C6_RaceRaises ==
    \A w \in Sessions :
        (Finishes(w, "movie") /\ InsertRace(w)) =>
            call'[w].error = "IntegrityError" /\ db' = db

\* C6: when another writer inserts a Movie with the same ml_id between the
\* lookup and the insert, the call fails with a duplicate-key error
\* (IntegrityError) and changes nothing; a call that looks up after that
\* insert updates the Movie (C1); no two Movies ever share an ml_id.
C6_NoDuplicateMlId == [](UniqueMlId) /\ [][C6_RaceRaises]_vars

C6_Witness ==
    \E w \in writers :
        /\ pc[w] = "failed"
        /\ InsertRace(w)
        /\ call[w].error = "IntegrityError"

\* C7 as claimed: a duplicate-key conflict with a key another writer inserted
\* first never ends a run in failure.
C7_ConflictNeverFailsRun ==
    \A w \in Sessions :
        ~(/\ pc[w] = "failed"
          /\ call[w].error = "IntegrityError"
          /\ call[w].found = 0
          /\ \/ call[w].op = "genre" /\ GenresNamed(db, call[w].name) # {}
             \/ InsertRace(w))

\* An update of an existing Movie that omits actors keeps the actor set, one
\* that omits genres keeps the genre set, one that omits the director keeps
\* the director.
C8_OmittedKept ==
    \A w \in Sessions :
        (Finishes(w, "movie") /\ call[w].found # 0 /\ call'[w].error = "none") =>
            LET a == call[w].args
                before == db.movies[call[w].found]
                after == db'.movies[call[w].found]
            IN  /\ a.actors = None => after.actors = before.actors
                /\ a.genres = None => after.genres = before.genres
                /\ a.director = 0 => after.director_id = before.director_id

\* C8: every update of an existing Movie keeps each relationship the call
\* omits (actors None, genres None, director None).
C8_OmittedRelationshipsKept == [][C8_OmittedKept]_vars

C8_Witness ==
    /\ Returned(1, "movie")
    /\ call[1].found # 0
    /\ call[1].args.actors = None
    /\ call[1].args.genres = None
    /\ call[1].args.director = 0
    /\ \/ db.movies[call[1].ret].actors # {}
       \/ db.movies[call[1].ret].genres # {}
       \/ db.movies[call[1].ret].director_id # 0

\* C9: after a call that supplies actors (genres) returns, the Movie's actor
\* (genre) set is exactly the supplied collection, whatever the set was
\* before; a supplied empty collection leaves none.
C9_SuppliedReplaces ==
    \A w \in Sessions :
        Returned(w, "movie") =>
            LET a == call[w].args
                m == db.movies[call[w].ret]
            IN  /\ a.actors # None => m.actors = Range(a.actors[1])
                /\ a.genres # None => m.genres = Range(a.genres[1])

C9_Witness ==
    /\ Returned(1, "movie")
    /\ call[1].found # 0
    /\ \/ /\ call[1].loaded.actors # {}
          /\ call[1].args.actors = Some(<<>>)
          /\ db.movies[call[1].ret].actors = {}
       \/ /\ call[1].loaded.genres # {}
          /\ call[1].args.genres = Some(<<>>)
          /\ db.movies[call[1].ret].genres = {}

\* A run of main() has ended, completed or failed.
RunEnded == spc \in {"completed", "failed"}

\* C3 as claimed: a run over the same files after a run that ended leaves
\* the number of movies, directors, actors and genres as the first run left
\* them.
C3_SecondRunSameCounts ==
    (RunEnded /\ snap # None) => Counts(db) = snap[1]

\* C3 as amended: it does so when TMDb enrichment is disabled or TMDb answers
\* every row in the second run as it did in the first.
C3_SecondRunSameCountsStable ==
    (RunEnded /\ snap # None /\ stable) => Counts(db) = snap[1]

C3_Witness ==
    /\ spc = "completed"
    /\ snap # None
    /\ stable
    /\ api_key
    /\ Len(db.movies) = 2
    /\ \E i \in 1..MaxRows : answers[i] # None /\ answers[i][1].credits # None

\* The ways TMDb may answer the rows of one run.
AnswerChoices == [1..MaxRows -> {Some(a) : a \in TmdbAnswers}]

\* C4 as claimed: a run stopped after a prefix of the rows and restarted from
\* the first row ends with the catalog of an uninterrupted run over the same
\* input (whatever TMDb answers that uninterrupted run).
C4_RestartSameCatalog ==
    (RunEnded /\ stops # <<>>) =>
        \E ans \in AnswerChoices :
            db = Uninterrupted(movies_file, ratings_file, api_key, ans).db

\* C4 as amended: it does so when TMDb enrichment is disabled or TMDb answers
\* every row after the restart as it did before the stop; the run then ends
\* as the uninterrupted run with these answers ends, with the same catalog.
C4_RestartSameCatalogStable ==
    (RunEnded /\ stops # <<>> /\ stable) =>
        LET u == Uninterrupted(movies_file, ratings_file, api_key, answers)
        IN  db = u.db /\ spc = u.spc /\ err = u.err

C4_Witness ==
    /\ spc = "completed"
    /\ stops # <<>>
    /\ stops[1] = 1
    /\ stable
    /\ Len(db.movies) = 2
    /\ db = Uninterrupted(movies_file, ratings_file, api_key, answers).db

\* C10 as claimed: a failure while a movie row is processed does not end the
\* run in failure, so no run is failed once its reader has handed out a row.
C10_RowFailureDoesNotFailRun == spc = "failed" => pos = 0

\* The enrichment call of the row in progress raised (247 caught it) or
\* returned nothing (search_movie found no movie).
EnrichmentFailed ==
    /\ api_key
    /\ answers[pos] # None
    /\ cur.e # "none" \/ answers[pos][1].search = None

\* The Movie with this ml_id has the placeholder director of the id and
\* exactly its five placeholder actors.
HasPlaceholders(d, movie_id) ==
    \E m \in MoviesWithMlId(d, movie_id) :
        /\ d.movies[m].director_id \in
               DirectorsNamed(d, deterministic_placeholder_director(movie_id))
        /\ {d.actors[a].name : a \in d.movies[m].actors}
               = Range(deterministic_placeholder_actors(movie_id))
        /\ Cardinality(d.movies[m].actors) = 5

\* The upsert of a row whose enrichment failed commits the Movie with the
\* placeholders, and the loop goes on to the next row.
FallbackUpserts ==
    /\ spc' = "row"
    /\ processed' = processed + 1
    /\ HasPlaceholders(db', cur.movie_id)

CatalogBeforeRow(i) ==
    seed_rows(EmptyDb, SubSeq(movies_file[1], 1, i - 1), 1, movie_ratings,
              api_key, answers).db

\* C12 as claimed: a row whose processing does not end in a committed upsert
\* leaves no Genre, Director or Actor behind: when a row fails, the catalog
\* is the one the rows before it left.
C12_FailedRowLeavesNothing ==
    (spc = "failed" /\ pos >= 1) => db = CatalogBeforeRow(pos)

\* C13 as claimed: a run fails only when the movies file cannot be opened,
\* and then it has written nothing.
C13_OnlyMissingFileFails ==
    spc = "failed" =>
        /\ movies_file = None
        /\ err = "FileNotFoundError"
        /\ db = EmptyDb

\* main() calls calculate_ratings on a missing ratings file: it returns {}
\* and main() goes on to seed_movies.
MissingRatingsDegrade ==
    (spc = "main" /\ ratings_file = None) =>
        /\ spc' = "seed"
        /\ err' = "none"
        /\ DOMAIN movie_ratings' = {}

\* Without a ratings file every movie is written with no rating and a
\* rating_count of 0.
MissingRatingsWritten ==
    ratings_file = None =>
        \A m \in 1..Len(db.movies) :
            db.movies[m].rating = None /\ db.movies[m].rating_count = 0

\* C14: when the ratings file is missing, calculate_ratings returns an empty
\* mapping instead of raising, the run proceeds to seed_movies, and every
\* movie is written with rating absent and rating_count 0.
C14_MissingRatingsDegrade ==
    [](MissingRatingsWritten) /\ [][MissingRatingsDegrade]_vars

C14_Witness ==
    /\ ratings_file = None
    /\ spc = "completed"
    /\ Len(db.movies) = 2
    /\ \E m \in MoviesWithMlId(db, 1) : db.movies[m].rating = None

\* The genres of Movie m are those parsed from a row the run has read for
\* its ml_id.
GenresOfItsRow(m) ==
    \E i \in 1..pos :
        /\ ParseInt(movies_file[1][i].movieId) = Some(db.movies[m].ml_id)
        /\ {db.genres[g].name : g \in db.movies[m].genres}
               = Range(JoinAll(parse_genres(movies_file[1][i].genres)))

\* C15: without a TMDb key the run issues no enrichment call, and every
\* ingested movie has its placeholder director, exactly its five placeholder
\* actors, the genres parsed from its row, no tmdb_id and no poster URL; a
\* movie without rating events has no rating and a rating_count of 0.
C15_PlaceholderOnly ==
    ~api_key =>
        /\ net = <<>>
        /\ spc # "enrich"
        /\ \A i \in 1..MaxRows : answers[i] = None
        /\ \A m \in 1..Len(db.movies) :
            /\ HasPlaceholders(db, db.movies[m].ml_id)
            /\ db.movies[m].tmdb_id = None
            /\ db.movies[m].poster_url = None
            /\ GenresOfItsRow(m)
            /\ db.movies[m].ml_id \notin DOMAIN calculate_ratings(ratings_file) =>
                    /\ db.movies[m].rating = None
                    /\ db.movies[m].rating_count = 0

C15_Witness ==
    /\ ~api_key
    /\ spc = "completed"
    /\ ratings_file # None
    /\ \E m \in MoviesWithMlId(db, 1) :
            /\ Cardinality(db.movies[m].genres) = 2
            /\ db.movies[m].rating = Some(450)
    /\ \E m \in MoviesWithMlId(db, 2) :
            /\ db.movies[m].genres = {}
            /\ db.movies[m].rating = None
            /\ db.movies[m].rating_count = 0

\* C16 as claimed: every search or credits request of the enricher is
\* followed by the delay before the enricher sends its next request.
C16_DelayAfterEveryCall ==
    \A i \in 1..(Len(net) - 1) :
        net[i] \in {"search", "credits"} => net[i + 1] = "sleep"

\* Once seed_movies runs, the aggregate of the ratings file is built.
RatingsFirst ==
    spc \in {"seed", "row", "genres", "enrich", "placeholder", "upsert", "completed"}
        => movie_ratings = calculate_ratings(ratings_file)

\* Between two rows the catalog is the one the rows read so far leave when
\* they are processed whole, one after the other in the order of the file,
\* and every one of them is upserted.
SequentialCatalog ==
    spc = "row" => (processed = pos /\ db = CatalogBeforeRow(pos + 1))

\* A row is read only between two rows, it is the next row of the file, and
\* it goes through genre resolution, then enrichment or placeholder
\* synthesis, then the upsert.
RowsInOrder ==
    /\ pos' # pos =>
        /\ spc = "row"
        /\ pos' = pos + 1
        /\ spc' \in {"genres", "failed"}
        /\ spc' = "genres" =>
                Some(cur'.movie_id) = ParseInt(movies_file[1][pos'].movieId)
    /\ spc = "genres" => spc' \in {"enrich", "placeholder", "failed"}
    /\ spc = "enrich" => spc' \in {"placeholder", "upsert"}
    /\ spc = "placeholder" => spc' = "upsert"
    /\ spc = "upsert" => spc' \in {"row", "failed"}

\* C17: rating aggregation finishes before the first movie row is processed,
\* and the rows are processed one at a time in source order, each through
\* parse, genre resolution, enrichment or placeholder synthesis, cast
\* resolution and upsert before the next row starts.
C17_OneRowAtATimeInOrder ==
    [](RatingsFirst /\ SequentialCatalog) /\ [][RowsInOrder]_vars

C17_Witness ==
    /\ spc = "completed"
    /\ movies_file = Some(<<HeatRow, UpRow>>)
    /\ ratings_file # None
    /\ api_key
    /\ Len(db.movies) = 2
    /\ db.movies[1].ml_id = 1 /\ db.movies[1].rating = Some(450)
    /\ db.movies[2].ml_id = 2

\* C18 as claimed: a completed run reports the number of processed rows and
\* the number of skipped rows, the processed count being the number of rows
\* whose upsert was committed.
C18_SummaryCounts ==
    spc = "completed" =>
        /\ summary # None
        /\ {"processed", "skipped"} \subseteq DOMAIN summary[1]
        /\ summary[1].processed = Len(movies_file[1])

EndsWithYear(t) ==
    /\ Len(t) >= 6
    /\ t[Len(t)] = ")"
    /\ t[Len(t) - 5] = "("
    /\ \A i \in (Len(t) - 4)..(Len(t) - 1) : t[i] \in Digits

\* The trimmed title without the suffix, and the year.
TitleAndYear(t) ==
    [title |-> Strip(SubSeq(t, 1, Len(t) - 6)),
     year |-> Some(DecimalValue(SubSeq(t, Len(t) - 4, Len(t) - 1)))]

TrimmedTokens(g) == {Strip(t) : t \in Range(SplitBar(g, <<>>))} \ {<<>>}

\* C21 as claimed: parse_genres returns the set of the non-empty trimmed
\* tokens of its input, no name twice, nothing for the sentinel
\* "(no genres listed)", and never the sentinel as a name.
C21_GenreSet ==
    fn_ret # None =>
        LET g == fn_arg[1]
            names == fn_ret[1]
        IN  /\ NoDuplicates(names)
            /\ Range(names) = IF g = NoGenresListed THEN {} ELSE TrimmedTokens(g)
            /\ NoGenresListed \notin Range(names)

Abs(x) == IF x < 0 THEN -x ELSE x

\* C22: calculate_ratings maps a movie id to a value exactly when an event
\* of the log carries that id, and the value is the mean of that id's
\* ratings rounded to two decimals (a nearest hundredth) together with the
\* number of its events.
C22_MeanAndCount ==
    (fn = "calculate_ratings" /\ fn_ret # None /\ fn_arg[1] # None) =>
        LET events == fn_arg[1][1]
            ratings == fn_ret[1]
        IN  /\ DOMAIN ratings = {events[i].movieId : i \in 1..Len(events)}
            /\ \A m \in DOMAIN ratings :
                LET n == Cardinality({i \in 1..Len(events) : events[i].movieId = m})
                    sum == SumRatings(events, m)
                    mean == ratings[m][1]
                IN  /\ n >= 1
                    /\ ratings[m][2] = n
                    /\ mean # None
                    /\ 2 * Abs(mean[1] * n - sum) <= n

C22_Witness ==
    /\ fn = "calculate_ratings"
    /\ fn_arg = Some(Some(<<[movieId |-> 1, rating |-> 400],
                            [movieId |-> 1, rating |-> 400],
                            [movieId |-> 1, rating |-> 450]>>))
    /\ fn_ret = Some(1 :> <<Some(417), 3>>)

\* The place of the first crew member whose job is Director (0: there is
\* none).
FirstDirector(crew) ==
    IF \E i \in 1..Len(crew) : crew[i].job = "Director"
    THEN CHOOSE i \in 1..Len(crew) :
            /\ crew[i].job = "Director"
            /\ \A j \in 1..(i - 1) : crew[j].job # "Director"
    ELSE 0

\* C23: enrich_movie_with_tmdb takes the first search result as the movie
\* (its id is the tmdb_id), the first crew member whose job is Director as
\* the director, and as actors the first cast entries in the order returned,
\* at most 8 of them.
C23_FirstResultDirectorTopCast ==
    (fn = "enrich_movie_with_tmdb" /\ fn_ret # None) =>
        LET a == fn_arg[1]
            e == fn_ret[1]
        IN  IF a.search = None \/ a.search[1].results = <<>>
            THEN e.tmdb_id = None /\ e.director = 0 /\ e.actors = <<>>
            ELSE /\ e.tmdb_id = Some(a.search[1].results[1].id)
                 /\ a.credits # None =>
                      LET crew == a.credits[1].crew
                          cast == a.credits[1].cast
                          k == FirstDirector(crew)
                      IN  /\ IF k = 0 THEN e.director = 0
                             ELSE /\ e.director # 0
                                  /\ e.db.directors[e.director].name = crew[k].name
                          /\ Len(e.actors) <= 8
                          /\ Len(e.actors) = Len(cast) \/ Len(e.actors) = 8
                          /\ Len(e.actors) <= Len(cast)
                          /\ \A i \in 1..Len(e.actors) :
                                e.db.actors[e.actors[i]].name = cast[i].name

C23_Witness ==
    /\ fn = "enrich_movie_with_tmdb"
    /\ fn_arg = Some([search |-> Some([results |-> <<OtherResult, HeatResult>>]),
                      credits |-> Some([crew |-> <<[job |-> "Director", name |-> "Ridley Scott"],
                                                   [job |-> "Producer", name |-> "Art Linson"],
                                                   [job |-> "Director", name |-> "Michael Mann"]>>,
                                        cast |-> CastList])])
    /\ fn_ret # None
    /\ fn_ret[1].tmdb_id = Some(1234)
    /\ fn_ret[1].db.directors[fn_ret[1].director].name = "Ridley Scott"
    /\ Len(fn_ret[1].actors) = 8
    /\ fn_ret[1].db.actors[fn_ret[1].actors[8]].name = "Ashley Judd"

\* The Movie the catalog d holds for ml_id.
MovieOf(d, ml_id) == d.movies[CHOOSE i \in MoviesWithMlId(d, ml_id) : TRUE]

\* The row the reader handed out last has just been upserted.
RowUpserted == spc = "upsert" /\ spc' = "row"

\* The Movie m of catalog d has the placeholder director of its ml_id, or
\* one of the placeholder actors of its ml_id.
StoredWithPlaceholder(d, m) ==
    \/ /\ m.director_id # 0
       /\ d.directors[m.director_id].name = deterministic_placeholder_director(m.ml_id)
    \/ \E a \in m.actors :
            d.actors[a].name \in Range(deterministic_placeholder_actors(m.ml_id))

C24_TmdbIdOfSearch ==
    RowUpserted =>
        MovieOf(db', cur.movie_id).tmdb_id =
            IF /\ api_key
               /\ answers[pos] # None
               /\ answers[pos][1].search # None
               /\ cur.e = "none"
            THEN Some(answers[pos][1].search[1].id)
            ELSE None

EntitiesKept ==
    /\ Len(db'.genres) >= Len(db.genres)
    /\ \A i \in 1..Len(db.genres) : db'.genres[i] = db.genres[i]
    /\ Len(db'.directors) >= Len(db.directors)
    /\ \A i \in 1..Len(db.directors) : db'.directors[i] = db.directors[i]
    /\ Len(db'.actors) >= Len(db.actors)
    /\ \A i \in 1..Len(db.actors) : db'.actors[i] = db.actors[i]

\* A get_or_create_* call whose lookup found an entity returns that entity.
ExistingReturned ==
    \A w \in Sessions, op \in {"genre", "director", "actor"} :
        (Finishes(w, op) /\ call[w].found # 0) =>
            call'[w].error = "none" /\ call'[w].ret = call[w].found

\* C25: no call changes the name or the bio of a Genre, Director or Actor
\* that exists, or deletes it; a get_or_create_* call with the name of an
\* existing entity and another bio returns that entity, its bio as it was.
C25_EntitiesNeverChange == [][EntitiesKept /\ ExistingReturned]_vars

C25_Witness ==
    /\ Returned(1, "director")
    /\ call[1].found # 0
    /\ call[1].ret = call[1].found
    /\ call[1].bio = Some("Placeholder")
    /\ db.directors[call[1].ret].bio = None

\* The Movies of catalog d that match the filters of q: a genre, actor or
\* director filter is matched by a Movie that has a genre, an actor or the
\* director whose name contains the text, in letters of either case.
Matching(d, q) ==
    {i \in 1..Len(d.movies) :
        LET m == d.movies[i]
        IN  /\ q.genre # None =>
                \E g \in m.genres : ILikeContains(d.genres[g].name, q.genre[1])
            /\ q.actor # None =>
                \E a \in m.actors : ILikeContains(d.actors[a].name, q.actor[1])
            /\ q.director # None =>
                /\ m.director_id # 0
                /\ ILikeContains(d.directors[m.director_id].name, q.director[1])
            /\ q.release_year # None => m.release_year = q.release_year
            /\ q.search # None => ILikeContains(m.title, q.search[1])}

\* The call has returned, and it had a genre, actor, director or
\* release_year filter.
FilteredCallReturned ==
    /\ fn = "get_movies_filtered"
    /\ fn_ret # None
    /\ \/ fn_arg[1].q.genre # None
       \/ fn_arg[1].q.actor # None
       \/ fn_arg[1].q.director # None
       \/ fn_arg[1].q.release_year # None

\* C26 as claimed: get_movies_filtered returns each Movie matching the
\* filter exactly once and no Movie that does not match.
C26_EachMatchingOnce ==
    FilteredCallReturned =>
        /\ NoDuplicates(fn_ret[1])
        /\ Range(fn_ret[1]) = Matching(fn_arg[1].db, fn_arg[1].q)

\* The filters the query applies: a release_year of 0 is no filter.
AppliedFilters(q) ==
    [q EXCEPT !.release_year = IF AppliedYear(q.release_year) THEN q.release_year ELSE None]

\* C26: get_movies_filtered returns no Movie twice and only Movies matching
\* the filters it applies: of these, in some order, the ones after the first
\* `skip`, at most `limit` of them.
C26_PageOfMatching ==
    FilteredCallReturned =>
        LET q == fn_arg[1].q
            matching == Matching(fn_arg[1].db, AppliedFilters(q))
            left == IF Cardinality(matching) > q.skip
                    THEN Cardinality(matching) - q.skip ELSE 0
        IN  /\ NoDuplicates(fn_ret[1])
            /\ Range(fn_ret[1]) \subseteq matching
            /\ Len(fn_ret[1]) = IF left < q.limit THEN left ELSE q.limit

C26_Witness ==
    /\ fn = "get_movies_filtered"
    /\ fn_arg[1].q = [genre |-> None, actor |-> Some(<<"a">>), director |-> None,
                      release_year |-> None, search |-> None, skip |-> 0,
                      limit |-> 100]
    /\ fn_arg[1].db.movies[1].actors = {1, 2}
    /\ fn_arg[1].db.movies[2].actors = {2, 3}
    /\ fn_ret = Some(<<1, 2>>)

\* An update of an existing Movie leaves every scalar column equal to the
\* argument of the call.
ScalarsAsGiven ==
    \A w \in Sessions :
        (Finishes(w, "movie") /\ call[w].found # 0 /\ call'[w].error = "none") =>
            \A f \in ScalarFields :
                db'.movies[call[w].found][f] = call[w].args[f]

\* C27: when create_or_update_movie_by_ml_id updates an existing Movie,
\* every scalar field ends equal to the argument of the call, so a field the
\* call omits is reset to its default (None, 0 for rating_count).
C27_ScalarsOverwritten == [][ScalarsAsGiven]_vars

C27_Witness ==
    /\ Returned(1, "movie")
    /\ call[1].found # 0
    /\ call[1].loaded.rating = Some(450)
    /\ call[1].loaded.rating_count = 2
    /\ call[1].loaded.tmdb_id = Some(949)
    /\ call[1].args.rating = None
    /\ db.movies[call[1].ret].rating = None
    /\ db.movies[call[1].ret].rating_count = 0
    /\ db.movies[call[1].ret].tmdb_id = None

\* C28: for every movie id the five names deterministic_placeholder_actors
\* returns are pairwise distinct.
C28_FiveDistinctActors ==
    (fn = "deterministic_placeholder_actors" /\ fn_ret # None) =>
        /\ Len(fn_ret[1]) = 5
        /\ NoDuplicates(fn_ret[1])

C28_Witness ==
    /\ fn = "deterministic_placeholder_actors"
    /\ fn_arg = Some(42)
    /\ fn_ret = Some(<<"Actor_966", "Actor_979", "Actor_992", "Actor_005", "Actor_018">>)

\* What the enrichment of the row the reader handed out last produced: the
\* name of a director (None: no director) and the names of the actors.
Produced ==
    IF \/ ~api_key
       \/ answers[pos] = None
       \/ cur.e # "none"
       \/ answers[pos][1].search = None
       \/ answers[pos][1].credits = None
    THEN [director |-> None, actors |-> <<>>]
    ELSE LET credits == answers[pos][1].credits[1]
             k == FirstDirector(credits.crew)
             n == IF Len(credits.cast) < 8 THEN Len(credits.cast) ELSE 8
         IN  [director |-> IF k = 0 THEN None ELSE Some(credits.crew[k].name),
              actors |-> [i \in 1..n |-> credits.cast[i].name]]

\* The Movie of the row is stored with a director, the one the enrichment
\* produced or else the placeholder, and with the placeholder actors when the
\* enrichment produced no director and no actors, else with the actors the
\* enrichment produced.
StoredAsProduced ==
    LET m == MovieOf(db', cur.movie_id)
    IN  /\ m.director_id # 0
        /\ db'.directors[m.director_id].name =
                IF Produced.director = None
                THEN deterministic_placeholder_director(cur.movie_id)
                ELSE Produced.director[1]
        /\ {db'.actors[a].name : a \in m.actors} =
                IF Produced.director = None /\ Produced.actors = <<>>
                THEN Range(deterministic_placeholder_actors(cur.movie_id))
                ELSE Range(Produced.actors)

\* C29 as claimed: every stored Movie has a director, its actors are the
\* placeholder cast exactly when enrichment produced no director and no
\* actors and the enrichment cast otherwise, and so no stored Movie has an
\* empty actor set.
C29_NeverWithoutActors ==
    [][RowUpserted => (StoredAsProduced /\ MovieOf(db', cur.movie_id).actors # {})]_vars

\* C29: every stored Movie has a director, and its actors are the
\* placeholder cast exactly when enrichment produced no director and no
\* actors, the enrichment cast otherwise (an empty one when enrichment
\* produced a director and no actors).
C29_DirectorAndCast == [][RowUpserted => StoredAsProduced]_vars

C29_Witness ==
    /\ spc = "row"
    /\ processed >= 1
    /\ answers[pos] = Some(CastOnly)
    /\ LET m == MovieOf(db, cur.movie_id)
       IN  /\ db.directors[m.director_id].name =
                deterministic_placeholder_director(cur.movie_id)
           /\ {db.actors[a].name : a \in m.actors} = {"Al Pacino"}

\* C30 as claimed: the actor collection and the genre collection handed to
\* create_or_update_movie_by_ml_id hold no entity twice.
C30_NoEntityTwice ==
    spc = "upsert" => NoDuplicates(cur.actors) /\ NoDuplicates(cur.genres)

=============================================================================
